---- MODULE Spec2Model ----
(***************************************************************************)
(* kache-action: the accounting and reporting engine.                      *)
(*                                                                         *)
(* src/src/save.js holds the post step (run, lines 11-85) followed by the  *)
(* helper library (lines 87-506); src/src/setup.js is the pre step.        *)
(*                                                                         *)
(* Text is modelled as a sequence of one-character strings wherever the    *)
(* code concatenates or compares it (cache keys), and as a sequence of     *)
(* lines, each a sequence of tokens, where the code builds markdown.       *)
(***************************************************************************)
EXTENDS Integers, Sequences, FiniteSets, TLC

VARIABLES
    ws,         \* the workspace the key is derived in: prefix input, os, arch, lockfiles
    krun,       \* per derivation: KACHE_VERSION and the order the glob found the lockfiles in
    kres,       \* per derivation: the {key, restoreKeys} returned, or NotDerived
    eventLog,   \* events.jsonl: whether the file exists, and its lines
    parsed,     \* what parseEvents() did on eventLog: null, stats, or a throw
    rendered,   \* buildStatsMarkdown(stats, ...) of the parsed stats, as lines of tokens
    comments,   \* the review thread: its comments in the order the API lists them
    pub,        \* the last publish: its inputs, the API calls it made, how it ended
    pubCount,   \* the number of publish calls made so far
    post,       \* the post step: what it met, what it logged, how far it got
    summaryFile,\* the job summary: the documents written to it
    jobFailed,  \* whether a step marked the job as failed (core.setFailed)
    racers,     \* per concurrent publish: its position in postOrUpdateComment and its locals
    pre,        \* the pre step (setup.js run): the path it took and what it did
    build       \* the build between the two steps: the state it saw, the records it appended

kvars == <<ws, krun, kres>>

lvars == <<eventLog, parsed, rendered>>

pvars == <<comments, pub, pubCount>>

svars == <<post, summaryFile, jobFailed>>

cvars == <<racers>>

uvars == <<pre, build>>

vars == <<ws, krun, kres, eventLog, parsed, rendered, comments, pub, pubCount,
          post, summaryFile, jobFailed, racers, pre, build>>

----
\* ------------------------------------------------------------ text helpers

Min(a, b) == IF a < b THEN a ELSE b

\* s.startsWith(p) on character sequences
IsPrefix(p, s) == Len(p) <= Len(s) /\ SubSeq(s, 1, Len(p)) = p

\* s.slice(0, n)
Slice(s, n) == SubSeq(s, 1, Min(n, Len(s)))

\* message.includes(needle), on sequences of words
Includes(message, needle) ==
    \E i \in 0 .. Len(message) - Len(needle) :
       SubSeq(message, i + 1, i + Len(needle)) = needle

----
\* ------------------------------------------------------------ Cache Key Deriver

\* Bounds of the key model
MaxLockfiles == 2

\* Number of hex characters of the stand-in digest (SHA-256 has 64)
DigestHexLen == 4

\* hasher.digest("hex").slice(0, 16)
LockHashLen == 16

Dash == <<"-">>

DefaultPrefix == <<"k", "a", "c", "h", "e">>

UnknownVersion == <<"u", "n", "k", "n", "o", "w", "n">>

NoLockfile == <<"n", "o", "-", "l", "o", "c", "k", "f", "i", "l", "e">>

NotDerived == [key |-> <<>>, restoreKeys |-> <<>>, done |-> FALSE]

\* Values of the cache-key-prefix input; the empty one selects the default
PrefixInputs == {<<>>, <<"k">>}

\* os.platform() and os.arch(), shortened to one character each
OsPlatforms == {<<"l">>, <<"d">>}

OsArchs == {<<"x">>}

\* Values of KACHE_VERSION: unset (empty), or a release tag as setup.js exports it
VersionEnvs == {<<>>, <<"v", "1">>, <<"v", "2">>, <<"v", "1", "-", "l", "-", "x">>}

\* Lockfile paths (sequences of code units) and contents (sequences of bytes)
LockPaths == {<<1>>, <<1, 2>>, <<2>>}

LockContents == {<<1>>, <<2>>}

\* All workspaces: a set of at most MaxLockfiles lockfiles, each with a content
LockfileSets == {S \in SUBSET LockPaths : Cardinality(S) <= MaxLockfiles}

Workspaces ==
    UNION {[prefix : PrefixInputs, os : OsPlatforms, arch : OsArchs,
            files : [S -> LockContents]] : S \in LockfileSets}

\* Every order in which the glob may return the paths of S
RECURSIVE Orders(_)
Orders(S) ==
    IF S = {} THEN {<<>>}
    ELSE UNION {{<<p>> \o o : o \in Orders(S \ {p})} : p \in S}

\* a < b in the order Array.prototype.sort() uses by default (code units)
RECURSIVE LexLess(_, _)
LexLess(a, b) ==
    IF Len(b) = 0 THEN FALSE
    ELSE IF Len(a) = 0 THEN TRUE
    ELSE IF a[1] # b[1] THEN a[1] < b[1]
    ELSE LexLess(Tail(a), Tail(b))

RECURSIVE InsertPath(_, _)
InsertPath(p, sorted) ==
    IF sorted = <<>> THEN <<p>>
    ELSE IF LexLess(p, Head(sorted)) THEN <<p>> \o sorted
    ELSE <<Head(sorted)>> \o InsertPath(p, Tail(sorted))

RECURSIVE SortPaths(_)
SortPaths(paths) ==
    IF paths = <<>> THEN <<>>
    ELSE InsertPath(paths[Len(paths)], SortPaths(SubSeq(paths, 1, Len(paths) - 1)))

\* lockfiles.sort() in buildCacheKey
UnsortedPaths(paths) == paths

SortedLockfiles(paths) == SortPaths(paths)

\* The stand-in for SHA-256: a running hash the bytes are streamed into
HashInit == 7

HashModulus == 16 ^ DigestHexLen

RECURSIVE HashUpdate(_, _)
HashUpdate(h, bytes) ==
    IF bytes = <<>> THEN h
    ELSE HashUpdate((h * 33 + Head(bytes)) % HashModulus, Tail(bytes))

HexDigits == <<"0", "1", "2", "3", "4", "5", "6", "7",
               "8", "9", "a", "b", "c", "d", "e", "f">>

RECURSIVE HexOf(_, _)
HexOf(h, n) ==
    IF n = 0 THEN <<>>
    ELSE HexOf(h \div 16, n - 1) \o <<HexDigits[(h % 16) + 1]>>

HashDigestHex(h) == HexOf(h, DigestHexLen)

\* for (const f of lockfiles.sort()) hasher.update(fs.readFileSync(f))
RECURSIVE HashFiles(_, _, _)
HashFiles(h, paths, files) ==
    IF paths = <<>> THEN h
    ELSE HashFiles(HashUpdate(h, files[Head(paths)]), Tail(paths), files)

LockHash(paths, files) ==
    IF Len(paths) > 0
    THEN Slice(HashDigestHex(HashFiles(HashInit, SortedLockfiles(paths), files)),
               LockHashLen)
    ELSE NoLockfile

\* `${prefix}-${kacheVersion}-${platform}-`
KeyStem(prefix, kacheVersion, platform) ==
    prefix \o Dash \o kacheVersion \o Dash \o platform \o Dash

\* buildCacheKey(): the inputs are read from the workspace w and the run r
buildCacheKey(w, r) ==
    LET prefix       == IF w.prefix # <<>> THEN w.prefix ELSE DefaultPrefix
        platform     == w.os \o Dash \o w.arch
        kacheVersion == IF r.version # <<>> THEN r.version ELSE UnknownVersion
        lockHash     == LockHash(r.lockfiles, w.files)
    IN  [key         |-> KeyStem(prefix, kacheVersion, platform) \o lockHash,
         restoreKeys |-> <<KeyStem(prefix, kacheVersion, platform)>>,
         done        |-> TRUE]

KeyRuns == 1 .. 2


----
\* ------------------------------------------------------------ Event Log Parser

\* Bounds of the log model
MaxLines == 3

\* A line of the log is blank (empty or white space), garbled (JSON.parse
\* throws on it: a torn or corrupted line), or the text of a JSON value.
BlankLine == [k |-> "blank"]

GarbledLine == [k |-> "garbled"]

JsonLine(v) == [k |-> "json", v |-> v]

\* JSON values: null, a scalar, or an object. An object carries the fields the
\* line spelled out; elapsed_ms, size and cache_key may be missing.
JsNull == [t |-> "null"]

JsNumber == [t |-> "number"]

Event(result) == [t |-> "object", result |-> result, crate_name |-> 0]

Miss(name, ms) == [t |-> "object", result |-> "miss", crate_name |-> name, elapsed_ms |-> ms]

MissWithKey(name, ms, key) ==
    [t |-> "object", result |-> "miss", crate_name |-> name, elapsed_ms |-> ms,
     cache_key |-> key]

MissBare(name) == [t |-> "object", result |-> "miss", crate_name |-> name]

\* The lines the build may append in the parser model
ParseLines ==
    {BlankLine, GarbledLine, JsonLine(JsNull), JsonLine(JsNumber),
     JsonLine(Event("local_hit")), JsonLine(Event("remote_hit")),
     JsonLine(Event("error")), JsonLine(Event("dedup")),
     JsonLine(Miss(1, 1200)), JsonLine(MissBare(2))}

NoFile == [exists |-> FALSE, lines |-> <<>>]

EmptyFile == [exists |-> TRUE, lines |-> <<>>]

\* JSON.parse(line): the value, or a SyntaxError
JsonParse(line) ==
    IF line.k = "json" THEN [ok |-> TRUE, v |-> line.v] ELSE [ok |-> FALSE]

\* line.trim() is empty
IsBlank(line) == line.k = "blank"

\* content.trim(): leading and trailing white space goes, so do blank lines at
\* either end
RECURSIVE TrimLeft(_)
TrimLeft(lines) ==
    IF lines = <<>> THEN <<>>
    ELSE IF IsBlank(Head(lines)) THEN TrimLeft(Tail(lines))
    ELSE lines

RECURSIVE TrimRight(_)
TrimRight(lines) ==
    IF lines = <<>> THEN <<>>
    ELSE IF IsBlank(lines[Len(lines)]) THEN TrimRight(SubSeq(lines, 1, Len(lines) - 1))
    ELSE lines

Trim(lines) == TrimRight(TrimLeft(lines))

\* The decode loop of parseEvents: blank lines are passed over, a line
\* JSON.parse throws on is skipped, every other value is pushed
Decoded(line) == ~IsBlank(line) /\ JsonParse(line).ok

RECURSIVE DecodeLines(_)
DecodeLines(lines) ==
    IF lines = <<>> THEN <<>>
    ELSE IF Decoded(Head(lines))
         THEN <<JsonParse(Head(lines)).v>> \o DecodeLines(Tail(lines))
         ELSE DecodeLines(Tail(lines))

\* e.result: a TypeError on null, undefined on a value without the field
ResultOf(e) == IF "result" \in DOMAIN e THEN e.result ELSE "undefined"

\* e.elapsed_ms || 0, e.size || 0, e.cache_key || "" (a key is a character sequence)
ElapsedOf(e) == IF "elapsed_ms" \in DOMAIN e THEN e.elapsed_ms ELSE 0

SizeOf(e) == IF "size" \in DOMAIN e THEN e.size ELSE 0

CacheKeyOf(e) == IF "cache_key" \in DOMAIN e THEN e.cache_key ELSE <<>>

MissedCrate(e) ==
    [name |-> e.crate_name, elapsed_ms |-> ElapsedOf(e), size |-> SizeOf(e),
     cache_key |-> CacheKeyOf(e)]

----
\* ------------------------------------------------------------ Stats Aggregator

\* The counting loop: one counter per case of the switch
RECURSIVE CountResult(_, _)
CountResult(events, result) ==
    IF events = <<>> THEN 0
    ELSE (IF ResultOf(Head(events)) = result THEN 1 ELSE 0)
         + CountResult(Tail(events), result)

RECURSIVE CollectMisses(_)
CollectMisses(events) ==
    IF events = <<>> THEN <<>>
    ELSE IF ResultOf(Head(events)) = "miss"
         THEN <<MissedCrate(Head(events))>> \o CollectMisses(Tail(events))
         ELSE CollectMisses(Tail(events))

\* missedCrates.sort((a, b) => b.elapsed_ms - a.elapsed_ms): a stable sort, so
\* an entry goes after every entry the comparator does not put it before
RECURSIVE InsertMiss(_, _)
InsertMiss(c, sorted) ==
    IF sorted = <<>> THEN <<c>>
    ELSE IF Head(sorted).elapsed_ms - c.elapsed_ms < 0 THEN <<c>> \o sorted
    ELSE <<Head(sorted)>> \o InsertMiss(c, Tail(sorted))

RECURSIVE SortMisses(_)
SortMisses(cs) ==
    IF cs = <<>> THEN <<>>
    ELSE InsertMiss(cs[Len(cs)], SortMisses(SubSeq(cs, 1, Len(cs) - 1)))

SortedMissedCrates(cs) == SortMisses(cs)

\* ((hits / total) * 100).toFixed(1), kept as a number of tenths of a percent
HitRate(hits, total) ==
    IF total > 0 THEN (2000 * hits + total) \div (2 * total) ELSE 0

\* What parseEvents() hands back
ReturnNull == [outcome |-> "null"]

ThrowTypeError == [outcome |-> "throw"]

NotParsed == [outcome |-> "none"]

\* total = localHits + remoteHits + misses, with errors counted in as well
TotalWithErrors(localHits, remoteHits, misses, errors) ==
    localHits + remoteHits + misses + errors

Total(localHits, remoteHits, misses, errors) == localHits + remoteHits + misses

Aggregate(events) ==
    LET localHits  == CountResult(events, "local_hit")
        remoteHits == CountResult(events, "remote_hit")
        misses     == CountResult(events, "miss")
        errors     == CountResult(events, "error")
        total      == Total(localHits, remoteHits, misses, errors)
        hits       == localHits + remoteHits
    IN  [outcome      |-> "stats",
         total        |-> total,
         localHits    |-> localHits,
         remoteHits   |-> remoteHits,
         hits         |-> hits,
         misses       |-> misses,
         errors       |-> errors,
         hitRate      |-> HitRate(hits, total),
         missedCrates |-> SortedMissedCrates(CollectMisses(events))]

\* parseEvents()
parseEvents(log) ==
    IF ~log.exists THEN ReturnNull
    ELSE LET content == Trim(log.lines)
             events  == DecodeLines(content)
         IN  IF content = <<>> THEN ReturnNull
             ELSE IF events = <<>> THEN ReturnNull
             ELSE IF \E i \in DOMAIN events : events[i] = JsNull THEN ThrowTypeError
             ELSE Aggregate(events)

----
\* ------------------------------------------------------------ Report Renderer

\* stats.missedCrates.slice(0, 10), and the "more" row past 10
TopN == 10

\* c.cache_key.slice(0, 12)
KeySliceLen == 12

\* A markdown line is a sequence of tokens: the cell separator, or a piece of
\* text between separators
Pipe == [t |-> "|"]

Text(str) == [t |-> "text", s |-> str]

Value(label, v) == [t |-> "value", s |-> label, v |-> v]

\* `${c.name}` and `${c.cache_key.slice(0, 12)}` in backticks
Code(name) == [t |-> "code", name |-> name]

KeyCode(key) == [t |-> "key", chars |-> key]

TextLine(str) == <<Text(str)>>

EmptyLine == <<>>

\* A line `| a | b | ... |` of the given cells
RECURSIVE Row(_)
Row(cells) ==
    IF cells = <<>> THEN <<Pipe>>
    ELSE <<Pipe, Head(cells)>> \o Row(Tail(cells))

\* "| ".repeat(n)
RECURSIVE RepeatPipe(_)
RepeatPipe(n) == IF n <= 0 THEN <<>> ELSE <<Pipe>> \o RepeatPipe(n - 1)

\* formatMs(ms)
formatMs(ms) ==
    IF ms < 1000 THEN Value("ms", ms) ELSE Value("s", (ms + 50) \div 100)

Units == <<"B", "KB", "MB", "GB">>

RECURSIVE UnitIndex(_)
UnitIndex(bytes) == IF bytes < 1024 THEN 0 ELSE 1 + UnitIndex(bytes \div 1024)

\* formatBytes(bytes); the value is kept in tenths of the unit
formatBytes(bytes) ==
    IF bytes = 0 THEN Text("0 B")
    ELSE LET i == UnitIndex(bytes)
         IN  Value(IF i + 1 \in DOMAIN Units THEN Units[i + 1] ELSE "undefined",
                   (20 * bytes + 1024 ^ i) \div (2 * 1024 ^ i))

\* top.some((c) => c.cache_key)
HasKeys(top) == \E i \in DOMAIN top : top[i].cache_key # <<>>

MissRow(c, hasKeys) ==
    IF hasKeys
    THEN Row(<<Code(c.name), formatMs(c.elapsed_ms), formatBytes(c.size),
               KeyCode(Slice(c.cache_key, KeySliceLen))>>)
    ELSE Row(<<Code(c.name), formatMs(c.elapsed_ms), formatBytes(c.size)>>)

RECURSIVE MissRows(_, _)
MissRows(top, hasKeys) ==
    IF top = <<>> THEN <<>>
    ELSE <<MissRow(Head(top), hasKeys)>> \o MissRows(Tail(top), hasKeys)

\* The number of separators after the "more" cell: "| ".repeat(cols - 1), then "|"
MoreRowPad(cols) == RepeatPipe(cols - 1)

\* `| *... ${n} more* ${empties}|`
MoreRow(n, hasKeys) ==
    LET cols == IF hasKeys THEN 4 ELSE 3
    IN  <<Pipe, Value("more", n)>> \o MoreRowPad(cols) \o <<Pipe>>

\* The rows kept of the sorted misses, with the cut one short and without it
TopSliceAll(missedCrates) == missedCrates

TopSlice(missedCrates) == Slice(missedCrates, TopN)

MissesHeader(hasKeys) ==
    IF hasKeys
    THEN <<Row(<<Text("Crate"), Text("Compile time"), Text("Size"), Text("Key")>>),
           Row(<<Text("-------"), Text("-------------"), Text("------"), Text("-----")>>)>>
    ELSE <<Row(<<Text("Crate"), Text("Compile time"), Text("Size")>>),
           Row(<<Text("-------"), Text("-------------"), Text("------")>>)>>

MissesSection(stats) ==
    IF Len(stats.missedCrates) > 0
    THEN LET top     == TopSlice(stats.missedCrates)
             hasKeys == HasKeys(top)
         IN  <<EmptyLine, TextLine("<details>"),
               <<Text("<summary>"), Value("Cache misses", stats.misses), Text("</summary>")>>,
               EmptyLine>>
             \o MissesHeader(hasKeys)
             \o MissRows(top, hasKeys)
             \o (IF Len(stats.missedCrates) > TopN
                 THEN <<MoreRow(Len(stats.missedCrates) - TopN, hasKeys)>>
                 ELSE <<>>)
             \o <<EmptyLine, TextLine("</details>")>>
    ELSE <<>>

\* buildStatsMarkdown(stats, backend, duration)
buildStatsMarkdown(stats, backend, duration) ==
    <<Row(<<Text("Metric"), Text("Value")>>),
      Row(<<Text("--------"), Text("-------")>>),
      Row(<<Text("Hit rate"), Value("%", stats.hitRate)>>),
      Row(<<Text("Local hits"), Value("n", stats.localHits)>>),
      Row(<<Text("Remote hits"), Value("n", stats.remoteHits)>>),
      Row(<<Text("Misses"), Value("n", stats.misses)>>)>>
    \o (IF stats.errors > 0 THEN <<Row(<<Text("Errors"), Value("n", stats.errors)>>)>>
        ELSE <<>>)
    \o <<Row(<<Text("Total crates"), Value("n", stats.total)>>),
         Row(<<Text("Backend"), Text(backend)>>),
         Row(<<Text("Duration"), duration>>)>>
    \o MissesSection(stats)

\* `**${hitRate}%** hit rate - ${hits}/${total} crates from cache, ${misses} compiled`
Headline(stats) ==
    <<Value("%", stats.hitRate), Text("hit rate"), Value("hits", stats.hits),
      Value("total", stats.total), Value("compiled", stats.misses)>>

\* buildCommentBody(stats, backend, duration)
buildCommentBody(stats, backend, duration) ==
    <<TextLine("### kache build cache"), EmptyLine, Headline(stats), EmptyLine>>
    \o buildStatsMarkdown(stats, backend, duration)
    \o <<EmptyLine, TextLine("*Posted by kache-action*")>>

----
\* ------------------------------------------------------------ Sticky Reporter

\* listComments({per_page: 100}): one page
PerPage == 100

COMMENT_MARKER == "<!-- kache-action-comment -->"

MarkerLine == TextLine(COMMENT_MARKER)

\* `${COMMENT_MARKER}\n${body}`
MarkedBody(body) == <<MarkerLine>> \o body

\* c.body && c.body.includes(COMMENT_MARKER)
HasMarker(body) ==
    /\ body # <<>>
    /\ \E i \in DOMAIN body : \E j \in DOMAIN body[i] : body[i][j] = Text(COMMENT_MARKER)

\* context.payload.pull_request?.number || context.issue?.number; 0 stands for
\* a number that is missing
PrNumber(context) ==
    IF context.pull_request # 0 THEN context.pull_request ELSE context.issue

\* if (!prNumber) return
AlwaysResolvable(prNumber) == TRUE

ThreadResolvable(prNumber) == prNumber # 0

\* An error of the discussion API: what it is, and the words of err.message
\* (no words: an error without a message)
ResourceNotAccessible == <<"Resource", "not", "accessible">>

ApiErrors ==
    {[kind |-> "authorization",
      message |-> <<"Resource", "not", "accessible", "by", "integration">>],
     [kind |-> "not-found", message |-> <<"Not", "Found">>],
     [kind |-> "network", message |-> <<>>]}

NoError == [kind |-> "none", message |-> <<>>]

\* Where the API fails during a publish: nowhere, at the list call, or at the
\* create or update call
ApiFaults ==
    {[at |-> "none", err |-> NoError]}
    \cup [at : {"list", "write"}, err : ApiErrors]

\* The first page of the thread, as listComments returns it
FirstPage(thread) == SubSeq(thread, 1, Min(PerPage, Len(thread)))

\* comments.find(...): the position of the first comment carrying the marker, 0
\* when there is none
FindNone(page) == 0

FindExisting(page) ==
    LET hits == {i \in DOMAIN page : HasMarker(page[i].body)}
    IN  IF hits = {} THEN 0 ELSE CHOOSE i \in hits : \A j \in hits : i <= j

\* Identifiers are handed out by the API in creation order
NewId(thread) == Len(thread) + 1

\* postOrUpdateComment(body, token): the thread afterwards, the API calls made,
\* and how the call ended (an outcome, or the error thrown)
postOrUpdateComment(thread, body, context, fault) ==
    LET prNumber   == PrNumber(context)
        markedBody == MarkedBody(body)
        page       == FirstPage(thread)
        existing   == FindExisting(page)
        write      == IF existing # 0 THEN "update" ELSE "create"
    IN  IF ~ThreadResolvable(prNumber)
        THEN [comments |-> thread, calls |-> <<>>, outcome |-> "skipped",
              target |-> 0, err |-> NoError]
        ELSE IF fault.at = "list"
        THEN [comments |-> thread, calls |-> <<"list">>, outcome |-> "threw",
              target |-> 0, err |-> fault.err]
        ELSE IF fault.at = "write"
        THEN [comments |-> thread, calls |-> <<"list", write>>, outcome |-> "threw",
              target |-> 0, err |-> fault.err]
        ELSE IF existing # 0
        THEN [comments |-> [thread EXCEPT ![existing].body = markedBody],
              calls |-> <<"list", "update">>, outcome |-> "updated",
              target |-> thread[existing].id, err |-> NoError]
        ELSE [comments |-> Append(thread, [id |-> NewId(thread), body |-> markedBody]),
              calls |-> <<"list", "create">>, outcome |-> "created",
              target |-> NewId(thread), err |-> NoError]

\* Bounds of the thread model: the comments of other authors on the thread before
\* the first publish, those that arrive later, and the publish calls
MaxForeign == 101

MaxLate == 1

MaxPublishes == 2

\* The comment bodies published, and the body of a comment of another author
Bodies == {<<TextLine("report 1")>>, <<TextLine("report 2")>>}

ForeignBody == <<TextLine("LGTM")>>

\* The contexts a run may have: no review thread, a pull request, an issue event
Contexts ==
    {[pull_request |-> 0, issue |-> 0], [pull_request |-> 7, issue |-> 7],
     [pull_request |-> 0, issue |-> 7]}

RECURSIVE ForeignThread(_)
ForeignThread(n) ==
    IF n = 0 THEN <<>>
    ELSE Append(ForeignThread(n - 1), [id |-> n, body |-> ForeignBody])

NotPublished ==
    [outcome |-> "none", body |-> <<>>, context |-> [pull_request |-> 0, issue |-> 0],
     calls |-> <<>>, target |-> 0, err |-> NoError]

\* The thread is short, or about one page long
ForeignCounts == {n \in 0 .. MaxForeign : n <= 1 \/ n >= PerPage - 1}

PublishInit ==
    /\ comments \in {ForeignThread(n) : n \in ForeignCounts}
    /\ pub = NotPublished
    /\ pubCount = 0

\* One publish, from its start to its end, with no other publish in between
Publish(body, context, fault) ==
    /\ pubCount < MaxPublishes
    /\ LET r == postOrUpdateComment(comments, body, context, fault)
       IN  /\ comments' = r.comments
           /\ pub' = [outcome |-> r.outcome, body |-> body, context |-> context,
                      calls |-> r.calls, target |-> r.target, err |-> r.err]
    /\ pubCount' = pubCount + 1

\* Somebody else comments on the thread after the sticky comment was created
ForeignComment ==
    /\ LET sticky == FindExisting(comments)
       IN  /\ sticky # 0
           /\ Len(comments) - sticky < MaxLate
    /\ comments' = Append(comments, [id |-> NewId(comments), body |-> ForeignBody])
    /\ UNCHANGED <<pub, pubCount>>

PublishIdle ==
    /\ comments = <<>>
    /\ pub = NotPublished
    /\ pubCount = 0

----
\* ------------------------------------------------------------ concurrent publishes

\* Two runs of the same review thread publish at the same time. Each await of
\* postOrUpdateComment is a point where the other run may act: the list call, the
\* find on the page it returned, and the update or create call.
Racers == {1, 2}

\* octokit.rest.issues.listComments({..., per_page: 100}) on the thread as it is now
listComments(thread) == FirstPage(thread)

\* comments.find(...) on the listed page: the id of the comment found, 0 for none
FindExistingId(page) ==
    IF FindExisting(page) = 0 THEN 0 ELSE page[FindExisting(page)].id

\* octokit.rest.issues.updateComment({comment_id, body})
updateComment(thread, id, body) ==
    [i \in DOMAIN thread |->
        IF thread[i].id = id THEN [thread[i] EXCEPT !.body = body] ELSE thread[i]]

\* octokit.rest.issues.createComment({issue_number, body: markedBody})
CreateUnmarked(thread, body) ==
    Append(thread, [id |-> NewId(thread), body |-> SubSeq(body, 2, Len(body))])

createComment(thread, body) == Append(thread, [id |-> NewId(thread), body |-> body])

\* A publish that has not started: its context and body are its inputs
Waiting(context, body) ==
    [pc |-> "start", context |-> context, body |-> body, page |-> <<>>,
     existing |-> 0, overlapped |-> FALSE]

\* The publishes that have listed the comments and not yet written theirs
InFlight == {q \in Racers : racers[q].pc \in {"listed", "found"}}

\* The thread the runs publish to: comments of others, or those and the sticky
\* comment of an earlier run
RaceThreads ==
    {ForeignThread(n) : n \in ForeignCounts}
    \cup {Append(ForeignThread(1),
                 [id |-> 2, body |-> MarkedBody(<<TextLine("report of an earlier run")>>)])}

RaceInit ==
    /\ comments \in RaceThreads
    /\ pub = NotPublished
    /\ pubCount = 0
    /\ racers \in [Racers -> {Waiting(c, b) : c \in Contexts, b \in Bodies}]

RaceIdle == racers = [r \in Racers |-> Waiting([pull_request |-> 0, issue |-> 0], <<>>)]

\* if (!prNumber) return
SkipPublish(r) ==
    /\ racers[r].pc = "start"
    /\ ~ThreadResolvable(PrNumber(racers[r].context))
    /\ racers' = [racers EXCEPT ![r].pc = "skipped"]
    /\ UNCHANGED pvars

\* await listComments(...): the page is the thread as it is at this moment. A
\* publish that lists while another is in flight overlaps with it.
ListComments(r, ok) ==
    /\ racers[r].pc = "start"
    /\ ThreadResolvable(PrNumber(racers[r].context))
    /\ racers' =
          [q \in Racers |->
              IF q = r
              THEN IF ok
                   THEN [racers[r] EXCEPT !.pc = "listed",
                                          !.page = listComments(comments),
                                          !.overlapped = (InFlight # {})]
                   ELSE [racers[r] EXCEPT !.pc = "threw"]
              ELSE IF ok /\ q \in InFlight
                   THEN [racers[q] EXCEPT !.overlapped = TRUE]
                   ELSE racers[q]]
    /\ UNCHANGED pvars

\* const existing = comments.find(...)
FindComment(r) ==
    /\ racers[r].pc = "listed"
    /\ racers' = [racers EXCEPT ![r].pc = "found",
                                ![r].existing = FindExistingId(racers[r].page),
                                ![r].page = <<>>]
    /\ UNCHANGED pvars

\* if (existing) await updateComment(...) else await createComment(...)
WriteComment(r, ok) ==
    /\ racers[r].pc = "found"
    /\ racers' = [racers EXCEPT ![r].pc = IF ok THEN "done" ELSE "threw"]
    /\ comments' =
          IF ~ok THEN comments
          ELSE IF racers[r].existing # 0
               THEN updateComment(comments, racers[r].existing,
                                  MarkedBody(racers[r].body))
               ELSE createComment(comments, MarkedBody(racers[r].body))
    /\ UNCHANGED <<pub, pubCount>>

----
\* ------------------------------------------------------------ the post step (save.js run)

\* A line the step logs: core.warning or core.info, and the failure it is about
\* ("" when it reports no failure)
Warning(about) == [level |-> "warning", about |-> about]

Info(about) == [level |-> "info", about |-> about]

\* What a part of the step did: the lines it logged, the failures it met, and the
\* failure it threw ("" when it returned)
Returned(log, failures) == [log |-> log, failures |-> failures, threw |-> ""]

Threw(failure) == [log |-> <<>>, failures |-> {failure}, threw |-> failure]

\* One part after another: the second runs only if the first returned
Then(first, second) ==
    IF first.threw # "" THEN first
    ELSE [log      |-> first.log \o second.log,
          failures |-> first.failures \cup second.failures,
          threw    |-> second.threw]

\* runKache(args): exec with ignoreReturnCode; a non-zero exit code is a warning,
\* a process that cannot be run is thrown by exec
ExecResults == {"ok", "nonzero", "throw"}

runKache(command, result) ==
    IF result = "throw" THEN Threw("exec " \o command)
    ELSE IF result = "nonzero"
         THEN Returned(<<Warning("exit " \o command)>>, {"exit " \o command})
         ELSE Returned(<<>>, {})

\* saveCache(): what it meets. The cache directory may be missing; buildCacheKey
\* may throw reading a lockfile; cache.saveCache may throw.
AlreadyExists == <<"already", "exists">>

SaveCases ==
    {[dir |-> FALSE, key |-> "ok", save |-> "ok", message |-> <<>>],
     [dir |-> TRUE, key |-> "throw", save |-> "ok", message |-> <<>>],
     [dir |-> TRUE, key |-> "ok", save |-> "ok", message |-> <<>>],
     [dir |-> TRUE, key |-> "ok", save |-> "throw",
      message |-> <<"Cache", "already", "exists">>],
     [dir |-> TRUE, key |-> "ok", save |-> "throw",
      message |-> <<"Cache", "service", "unavailable">>]}

saveCache(case) ==
    IF ~case.dir THEN Returned(<<Info("")>>, {})
    ELSE IF case.key = "throw" THEN Threw("cache key")
    ELSE IF case.save = "ok" THEN Returned(<<Info("")>>, {})
    ELSE IF Includes(case.message, AlreadyExists)
         THEN Returned(<<Info("cache save")>>, {"cache save"})
         ELSE Returned(<<Warning("cache save")>>, {"cache save"})

\* What the step meets at its cache push, by the backend the run was set up with
\* (the s3-configured and gh-cache states)
PushCases ==
    [backend : {"S3"}, manifest : ExecResults, push : ExecResults, save : {<<>>}]
    \cup {[backend |-> "GitHub Actions cache", manifest |-> "ok", push |-> "ok",
           save |-> <<c>>] : c \in SaveCases}
    \cup {[backend |-> "local only", manifest |-> "ok", push |-> "ok", save |-> <<>>]}

CachePush(case) ==
    IF case.backend = "S3"
    THEN Then(runKache("save-manifest", case.manifest), runKache("sync --push", case.push))
    ELSE IF case.backend = "GitHub Actions cache" THEN saveCache(case.save[1])
    ELSE Returned(<<>>, {})

\* err.message?.includes("Resource not accessible")
NeverPermissionError(err) == FALSE

IsPermissionError(err) == Includes(err.message, ResourceNotAccessible)

\* The try around postOrUpdateComment: what the step logs for a publish result
PublishReport(result) ==
    IF result.outcome # "threw" THEN Returned(<<>>, {})
    ELSE IF IsPermissionError(result.err)
         THEN Returned(<<Info("publish")>>, {"publish"})
         ELSE Returned(<<Warning("publish")>>, {"publish"})

\* core.summary.addHeading("Kache Build Cache", 2), and what follows it
HeadingLine == <<Text("h2"), Text("Kache Build Cache")>>

DegradedLine(backend, duration) ==
    <<Text("Backend"), Text(backend), Text("Duration"), duration>>

HasRunData(stats) == stats.outcome = "stats" /\ stats.total > 0

SummaryDocument(stats, backend, duration) ==
    IF HasRunData(stats)
    THEN <<HeadingLine, Headline(stats), EmptyLine>>
         \o buildStatsMarkdown(stats, backend, duration) \o <<EmptyLine>>
    ELSE <<HeadingLine, DegradedLine(backend, duration), EmptyLine>>

\* startTime ? ((Date.now() - startTime) / 1000).toFixed(1) : "?"
Duration(startTime) == IF startTime # 0 THEN Value("s", 150) ELSE Text("?")

\* The catch around the whole step: a warning; the same catch as setup.js has it
CatchAndFail(failure) == [log |-> <<>>, failed |-> TRUE]

CatchPostStep(failure) == [log |-> <<Warning(failure)>>, failed |-> FALSE]

NotAttempted ==
    [comments |-> <<>>, calls |-> <<>>, outcome |-> "not-attempted", target |-> 0,
     err |-> NoError]

NotRun ==
    [done |-> FALSE, backend |-> "local only", stats |-> NotParsed,
     publish |-> "not-attempted", err |-> NoError, log |-> <<>>, failures |-> {},
     threw |-> "", summaryFault |-> FALSE]

\* run() of the post step, with what it meets: the cache push case, the start
\* time saved by the setup step, the context and the API fault of the publish,
\* and whether writing the summary fails
PostRun(push, startTime, context, fault, summaryFault) ==
    /\ ~post.done
    /\ LET pushed   == CachePush(push)
           stats    == IF pushed.threw = "" THEN parseEvents(eventLog) ELSE NotParsed
           parse    == IF stats.outcome = "throw" THEN Threw("parse")
                       ELSE Returned(<<>>, {})
           duration == Duration(startTime)
           body     == buildCommentBody(stats, push.backend, duration)
           reached  == Then(pushed, parse).threw = ""
           result   == IF reached /\ HasRunData(stats)
                       THEN postOrUpdateComment(comments, body, context, fault)
                       ELSE NotAttempted
           write    == IF summaryFault THEN Threw("summary write") ELSE Returned(<<>>, {})
           body0    == Then(Then(Then(pushed, parse), PublishReport(result)), write)
           caught   == IF body0.threw # "" THEN CatchPostStep(body0.threw)
                       ELSE [log |-> <<>>, failed |-> FALSE]
       IN  /\ post' = [done         |-> TRUE,
                       backend      |-> push.backend,
                       stats        |-> stats,
                       publish      |-> result.outcome,
                       err          |-> result.err,
                       log          |-> body0.log \o caught.log,
                       failures     |-> body0.failures,
                       threw        |-> body0.threw,
                       summaryFault |-> summaryFault]
           /\ comments' = IF result.outcome \in {"created", "updated"}
                          THEN result.comments ELSE comments
           /\ summaryFile' = IF body0.threw = ""
                             THEN Append(summaryFile,
                                         SummaryDocument(stats, push.backend, duration))
                             ELSE summaryFile
           /\ jobFailed' = (jobFailed \/ caught.failed)
    /\ UNCHANGED <<eventLog, parsed, rendered, pub, pubCount>>

\* Bound of the post step model: the lines of the log
MaxPostLines == 1

PostLines ==
    {JsonLine(Event("local_hit")), JsonLine(Miss(1, 1200)), JsonLine(Event("error")),
     JsonLine(JsNull)}

\* The thread the step publishes to: empty, with a comment of somebody else, or
\* with the sticky comment of an earlier run
PostThreads ==
    {<<>>, ForeignThread(1),
     <<[id |-> 1, body |-> MarkedBody(<<TextLine("report of an earlier run")>>)]>>}

PostInit ==
    /\ post = NotRun
    /\ summaryFile = <<>>
    /\ jobFailed = FALSE

PostIdle == PostInit

----
\* ------------------------------------------------------------ the pre step (setup.js run)

\* if (!version.startsWith("v")) version = `v${version}`
NormalizeVersion(version) ==
    IF Head(version) # "v" THEN <<"v">> \o version ELSE version

\* The version input: empty, without the "v", with it
VersionInputs == {<<>>, <<"1">>, <<"v", "1">>}

\* getLatestVersion(token): the tag of the latest release, null on a 404 (no
\* release: the empty version), or the error of the API rethrown
LatestReleases == {"none", "throw", "tag"}

LatestTag == <<"v", "2">>

\* tc.find / downloadAndVerify / tc.extractTar: the binary is in the tool cache,
\* is downloaded, cannot be downloaded, or cannot be unpacked
ToolCases == {"cached", "downloaded", "download-fails", "extract-fails"}

\* cache.restoreCache(...): a hit brings the cache directory back, the event log
\* of the run that saved it included; a miss; an error of the cache service
RestoreResults == {"hit", "miss", "error"}

\* The event log a run of earlier days left behind: in the cache directory of a
\* runner that is kept between runs, or in the store a restore brings back
EarlierLog ==
    [exists |-> TRUE,
     lines  |-> <<JsonLine(Miss(7, 2500)), JsonLine(Event("local_hit"))>>]

\* What the pre step meets: the platform, the version input and the latest
\* release, the binary, the backend inputs, the sync --pull, the lockfiles
\* readable or not, the restore
SetupCases ==
    [target : {"ok"}, version : VersionInputs, latest : {"tag"}, tool : {"cached"},
     s3 : {FALSE}, sync : {FALSE}, githubCache : BOOLEAN, pull : {"ok"},
     key : {"ok", "throw"}, restore : RestoreResults]
    \cup [target : {"ok"}, version : {<<"v", "1">>}, latest : {"tag"},
          tool : {"downloaded"}, s3 : {TRUE}, sync : BOOLEAN, githubCache : {TRUE},
          pull : ExecResults, key : {"ok"}, restore : {"miss"}]
    \cup [target : {"ok", "throw"}, version : {<<>>}, latest : LatestReleases,
          tool : ToolCases, s3 : {FALSE}, sync : {FALSE}, githubCache : {TRUE},
          pull : {"ok"}, key : {"ok"}, restore : {"hit"}]

\* isS3Configured() and useGitHubCache()
isS3Configured(case) == case.s3

useGitHubCache(case) == ~isS3Configured(case) /\ case.githubCache

\* restoreCache(): the key is built outside the try, the restore inside it
restoreCache(case, w, r, log, dir) ==
    IF case.key = "throw"
    THEN [threw |-> TRUE, key |-> NotDerived, called |-> FALSE, warned |-> FALSE,
          log |-> log, dir |-> dir]
    ELSE [threw  |-> FALSE,
          key    |-> buildCacheKey(w, r),
          called |-> TRUE,
          warned |-> case.restore = "error",
          log    |-> IF case.restore = "hit" THEN EarlierLog ELSE log,
          dir    |-> dir \/ case.restore = "hit"]

\* clearEventLog(): fs.writeFileSync(logPath, "") in a try; it throws, and the
\* catch swallows it, when the cache directory does not exist
clearEventLog(log, dir) == IF dir THEN EmptyFile ELSE log

\* What the pre step saves for the post step (core.saveState)
NoState == [saved |-> FALSE, s3 |-> FALSE, ghCache |-> FALSE]

\* The pre step before it has run
NotSetUp ==
    [done |-> FALSE, path |-> "none", version |-> <<>>, restore |-> "none",
     cleared |-> FALSE, state |-> NoState, warned |-> FALSE]

\* The ends of run(): return in the bootstrapping mode or without the binary
\* (lines 26-29, 42-45), the catch (line 116), or the end of the try
SetupSkipped(path, log, dir) ==
    [pre |-> [NotSetUp EXCEPT !.done = TRUE, !.path = path, !.warned = TRUE],
     key |-> NotDerived, log |-> log, dir |-> dir, failed |-> FALSE]

SetupFailed(version, log, dir) ==
    [pre |-> [NotSetUp EXCEPT !.done = TRUE, !.path = "failed", !.version = version],
     key |-> NotDerived, log |-> log, dir |-> dir, failed |-> TRUE]

\* run() of the pre step on the workspace w, with the lockfiles in the order the
\* glob found them, the event log and the cache directory as the runner has them
SetupRunOf(case, w, lockfiles, log, dir) ==
    LET input    == case.version
        resolved == IF input # <<>> THEN input
                    ELSE IF case.latest = "tag" THEN LatestTag ELSE <<>>
        version  == IF resolved = <<>> THEN <<>> ELSE NormalizeVersion(resolved)
        s3       == isS3Configured(case)
        ghCache  == useGitHubCache(case)
        restored == restoreCache(case, w, [version |-> version, lockfiles |-> lockfiles],
                                 log, dir)
        pulled   == runKache("sync --pull", case.pull)
    IN  IF case.target = "throw" THEN SetupFailed(<<>>, log, dir)
        ELSE IF input = <<>> /\ case.latest = "throw" THEN SetupFailed(<<>>, log, dir)
        ELSE IF resolved = <<>> THEN SetupSkipped("no-release", log, dir)
        ELSE IF case.tool = "download-fails" THEN SetupSkipped("no-binary", log, dir)
        ELSE IF case.tool = "extract-fails" THEN SetupFailed(<<>>, log, dir)
        ELSE IF s3 /\ case.sync
        THEN IF pulled.threw # "" THEN SetupFailed(version, log, dir)
             ELSE [pre |-> [done |-> TRUE, path |-> "set-up", version |-> version,
                            restore |-> "pull", cleared |-> TRUE,
                            state |-> [saved |-> TRUE, s3 |-> s3, ghCache |-> ghCache],
                            warned |-> pulled.log # <<>>],
                   key |-> NotDerived, log |-> clearEventLog(log, dir), dir |-> dir,
                   failed |-> FALSE]
        ELSE IF ghCache
        THEN IF restored.threw THEN SetupFailed(version, log, dir)
             ELSE [pre |-> [done |-> TRUE, path |-> "set-up", version |-> version,
                            restore |-> case.restore, cleared |-> TRUE,
                            state |-> [saved |-> TRUE, s3 |-> s3, ghCache |-> ghCache],
                            warned |-> restored.warned],
                   key |-> restored.key,
                   log |-> clearEventLog(restored.log, restored.dir),
                   dir |-> restored.dir, failed |-> FALSE]
        ELSE [pre |-> [done |-> TRUE, path |-> "set-up", version |-> version,
                       restore |-> "none", cleared |-> TRUE,
                       state |-> [saved |-> TRUE, s3 |-> s3, ghCache |-> ghCache],
                       warned |-> FALSE],
              key |-> NotDerived, log |-> clearEventLog(log, dir), dir |-> dir,
              failed |-> FALSE]

\* The runner between the two steps: whether the cache directory exists, whether
\* the build has run, the records it appended, whether it wrote a lockfile
NoBuild == [dir |-> FALSE, ran |-> FALSE, lines |-> <<>>, locked |-> FALSE]

SetupIdle ==
    /\ pre = NotSetUp
    /\ build = NoBuild

----
\* ------------------------------------------------------------ the log, parsed and rendered

\* Bounds of the renderer model: the longest log, and the hits at its start
MaxMisses == 12

MaxHits == 1

\* The misses the build may append in the renderer model; the crate name is the
\* number of the line, so that no two misses are alike. The quick ones carry a
\* cache key, the slow ones do not.
RenderMisses(name) == {MissWithKey(name, 300, <<"k", "e", "y">>), Miss(name, 2500)}

NotRendered == <<>>

LogInit ==
    /\ eventLog \in {NoFile, EmptyFile}
    /\ parsed = NotParsed
    /\ rendered = NotRendered

\* The build appends one record to the log
AppendLine(line, max) ==
    /\ parsed = NotParsed
    /\ Len(eventLog.lines) < max
    /\ eventLog' = [exists |-> TRUE, lines |-> Append(eventLog.lines, line)]
    /\ UNCHANGED <<parsed, rendered>>

\* The post step parses the log
ParseEvents ==
    /\ parsed = NotParsed
    /\ parsed' = parseEvents(eventLog)
    /\ UNCHANGED <<eventLog, rendered>>

\* The post step renders the stats it parsed
RenderStats ==
    /\ parsed.outcome = "stats"
    /\ rendered = NotRendered
    /\ rendered' = buildStatsMarkdown(parsed, "local only", Value("s", 150))
    /\ UNCHANGED <<eventLog, parsed>>

KeyIdle ==
    /\ ws = [prefix |-> <<>>, os |-> <<"l">>, arch |-> <<"x">>, files |-> <<>>]
    /\ krun = [r \in KeyRuns |-> [version |-> <<>>, lockfiles |-> <<>>]]
    /\ kres = [r \in KeyRuns |-> NotDerived]

LogIdle ==
    /\ eventLog = NoFile
    /\ parsed = NotParsed
    /\ rendered = NotRendered

KeyInit ==
    /\ LogIdle
    /\ PublishIdle
    /\ PostIdle
    /\ RaceIdle
    /\ SetupIdle
    /\ ws \in Workspaces
    /\ krun \in [KeyRuns -> UNION {[version : VersionEnvs,
                                    lockfiles : Orders(DOMAIN ws.files)]}]
    /\ kres = [r \in KeyRuns |-> NotDerived]

\* One run derives its key (restoreCache at run start, saveCache at run end)
DeriveKey(r) ==
    /\ ~kres[r].done
    /\ kres' = [kres EXCEPT ![r] = buildCacheKey(ws, krun[r])]
    /\ UNCHANGED <<ws, krun>>
    /\ UNCHANGED <<lvars, pvars, svars, cvars, uvars>>

KeyNext == \E r \in KeyRuns : DeriveKey(r)

SpecKey == KeyInit /\ [][KeyNext]_vars

ParseInit == KeyIdle /\ LogInit /\ PublishIdle /\ PostIdle /\ RaceIdle /\ SetupIdle

ParseNext ==
    \/ \E line \in ParseLines : AppendLine(line, MaxLines) /\ UNCHANGED <<kvars, pvars, svars, cvars, uvars>>
    \/ ParseEvents /\ UNCHANGED <<kvars, pvars, svars, cvars, uvars>>
    \/ RenderStats /\ UNCHANGED <<kvars, pvars, svars, cvars, uvars>>

SpecParse == ParseInit /\ [][ParseNext]_vars

\* In the renderer model the hits of a build come before its misses
AppendHit ==
    /\ \A i \in DOMAIN eventLog.lines : ResultOf(eventLog.lines[i].v) = "local_hit"
    /\ AppendLine(JsonLine(Event("local_hit")), MaxHits)

AppendMiss ==
    \E e \in RenderMisses(Len(eventLog.lines) + 1) : AppendLine(JsonLine(e), MaxMisses)

RenderNext ==
    \/ AppendHit /\ UNCHANGED <<kvars, pvars, svars, cvars, uvars>>
    \/ AppendMiss /\ UNCHANGED <<kvars, pvars, svars, cvars, uvars>>
    \/ ParseEvents /\ UNCHANGED <<kvars, pvars, svars, cvars, uvars>>
    \/ RenderStats /\ UNCHANGED <<kvars, pvars, svars, cvars, uvars>>

SpecRender == ParseInit /\ [][RenderNext]_vars

StickyInit == KeyIdle /\ LogIdle /\ PublishInit /\ PostIdle /\ RaceIdle /\ SetupIdle

StickyNext ==
    \/ \E body \in Bodies, context \in Contexts, fault \in ApiFaults :
          Publish(body, context, fault) /\ UNCHANGED <<kvars, lvars, svars, cvars, uvars>>
    \/ ForeignComment /\ UNCHANGED <<kvars, lvars, svars, cvars, uvars>>

SpecSticky == StickyInit /\ [][StickyNext]_vars

PostSpecInit ==
    /\ KeyIdle
    /\ LogInit
    /\ comments \in PostThreads
    /\ pub = NotPublished
    /\ pubCount = 0
    /\ PostInit
    /\ RaceIdle
    /\ SetupIdle

\* The build writes its log before the post step runs
BuildAppends ==
    /\ ~post.done
    /\ \E line \in PostLines : AppendLine(line, MaxPostLines)
    /\ UNCHANGED <<kvars, pvars, svars, cvars, uvars>>

PostNext ==
    \/ BuildAppends
    \/ \E push \in PushCases, startTime \in {0, 1}, context \in Contexts,
          fault \in ApiFaults, summaryFault \in BOOLEAN :
          PostRun(push, startTime, context, fault, summaryFault)
             /\ UNCHANGED <<kvars, cvars, uvars>>

SpecPost == PostSpecInit /\ [][PostNext]_vars

RaceSpecInit == KeyIdle /\ LogIdle /\ PostIdle /\ SetupIdle /\ RaceInit

RaceNext ==
    \/ \E r \in Racers : SkipPublish(r) /\ UNCHANGED <<kvars, lvars, svars, uvars>>
    \/ \E r \in Racers, ok \in BOOLEAN :
          ListComments(r, ok) /\ UNCHANGED <<kvars, lvars, svars, uvars>>
    \/ \E r \in Racers : FindComment(r) /\ UNCHANGED <<kvars, lvars, svars, uvars>>
    \/ \E r \in Racers, ok \in BOOLEAN :
          WriteComment(r, ok) /\ UNCHANGED <<kvars, lvars, svars, uvars>>

SpecRace == RaceSpecInit /\ [][RaceNext]_vars

\* Bound of the run model: the records the build appends
MaxRunLines == 1

\* The records kache appends during the build of the run
RunLines == {JsonLine(Event("local_hit")), JsonLine(Miss(1, 1200))}

\* The workspaces of the run model: the default prefix, at most one lockfile
\* checked out
RunWorkspaces ==
    {w \in Workspaces :
        w.prefix = <<>> /\ w.os = <<"l">> /\ Cardinality(DOMAIN w.files) <= 1}

\* One run of a job on a runner: the pre step, the build, the post step. The
\* runner may be one that is kept between runs, with the cache directory and the
\* event log of an earlier run still in place.
RunInit ==
    /\ ws \in RunWorkspaces
    /\ krun = [r \in KeyRuns |-> [version |-> <<>>, lockfiles |-> <<>>]]
    /\ kres = [r \in KeyRuns |-> NotDerived]
    /\ eventLog \in {NoFile, EarlierLog}
    /\ parsed = NotParsed
    /\ rendered = NotRendered
    /\ PublishIdle
    /\ PostInit
    /\ RaceIdle
    /\ pre = NotSetUp
    /\ build \in {[NoBuild EXCEPT !.dir = d] : d \in {eventLog.exists, TRUE}}

\* run() of setup.js; kres[1] is the key restoreCache passed to cache.restoreCache
SetupRun(case, lockfiles) ==
    /\ ~pre.done
    /\ LET r == SetupRunOf(case, ws, lockfiles, eventLog, build.dir)
       IN  /\ pre' = r.pre
           /\ eventLog' = r.log
           /\ build' = [build EXCEPT !.dir = r.dir]
           /\ kres' = [kres EXCEPT ![1] = r.key]
           /\ krun' = IF r.key.done
                      THEN [krun EXCEPT ![1] = [version   |-> r.pre.version,
                                                lockfiles |-> lockfiles]]
                      ELSE krun
           /\ jobFailed' = (jobFailed \/ r.failed)
    /\ UNCHANGED <<ws, parsed, rendered, post, summaryFile>>
    /\ UNCHANGED <<pvars, cvars>>

\* The build steps run between the two steps unless the pre step failed the job
Building == pre.done /\ ~post.done /\ ~jobFailed

\* kache, set up as RUSTC_WRAPPER by the pre step, appends a record for a crate
BuildAppendsRecord(line) ==
    /\ Building
    /\ pre.path = "set-up"
    /\ AppendLine(line, MaxRunLines)
    /\ build' = [build EXCEPT !.dir = TRUE, !.ran = TRUE,
                              !.lines = Append(build.lines, line)]
    /\ UNCHANGED <<pre, kvars, pvars, svars, cvars>>

\* cargo writes a Cargo.lock: it generates one the checkout did not have, or
\* updates one that is out of date
BuildWritesLockfile(path, content) ==
    /\ Building
    /\ ~build.locked
    /\ Cardinality(DOMAIN ws.files \cup {path}) <= MaxLockfiles
    /\ path \in DOMAIN ws.files => ws.files[path] # content
    /\ ws' = [ws EXCEPT !.files =
                 [q \in DOMAIN ws.files \cup {path} |->
                     IF q = path THEN content ELSE ws.files[q]]]
    /\ build' = [build EXCEPT !.ran = TRUE, !.locked = TRUE]
    /\ UNCHANGED <<pre, krun, kres, lvars, pvars, svars, cvars>>

\* core.getState("s3-configured") / core.getState("gh-cache"): "" when the pre
\* step did not reach saveState
BackendOf(state) ==
    IF state.s3 THEN "S3"
    ELSE IF state.ghCache THEN "GitHub Actions cache" ELSE "local only"

\* What the post step of this run may meet at its cache push
RunPushCases ==
    {c \in PushCases :
        /\ c.backend = BackendOf(pre.state)
        /\ c.save # <<>> => c.save[1].dir = build.dir}

\* run() of save.js at the end of the run; kres[2] is the key saveCache passed to
\* cache.saveCache. KACHE_VERSION is the one the pre step exported.
RunPostStep(push, context, lockfiles) ==
    /\ pre.done
    /\ PostRun(push, IF pre.state.saved THEN 1 ELSE 0, context,
               [at |-> "none", err |-> NoError], FALSE)
    /\ LET saves == /\ push.save # <<>>
                    /\ push.save[1].dir
                    /\ push.save[1].key = "ok"
           r     == [version |-> pre.version, lockfiles |-> lockfiles]
       IN  /\ kres' = IF saves THEN [kres EXCEPT ![2] = buildCacheKey(ws, r)] ELSE kres
           /\ krun' = IF saves THEN [krun EXCEPT ![2] = r] ELSE krun
    /\ UNCHANGED <<ws, cvars, uvars>>

RunNext ==
    \/ \E case \in SetupCases, lockfiles \in Orders(DOMAIN ws.files) :
          SetupRun(case, lockfiles)
    \/ \E line \in RunLines : BuildAppendsRecord(line)
    \/ \E path \in LockPaths, content \in LockContents : BuildWritesLockfile(path, content)
    \/ \E push \in RunPushCases, context \in Contexts,
          lockfiles \in Orders(DOMAIN ws.files) :
          RunPostStep(push, context, lockfiles)

SpecRun == RunInit /\ [][RunNext]_vars

----
\* ------------------------------------------------------------ claims on the key

BothDerived == kres[1].done /\ kres[2].done

\* The tool version a derivation used
KacheVersionOf(r) == IF krun[r].version # <<>> THEN krun[r].version ELSE UnknownVersion

\* C5: two derivations over the same workspace (same prefix, platform, lockfile
\* set and contents) and the same tool version return the same key and the same
\* restore keys, whatever order the lockfiles were discovered in; and with no
\* lockfile the key is the fallback prefix followed by the token no-lockfile.
C5_KeyDeterministic ==
    /\ (BothDerived /\ krun[1].version = krun[2].version)
          => /\ kres[1].key = kres[2].key
             /\ kres[1].restoreKeys = kres[2].restoreKeys
    /\ \A r \in KeyRuns :
          (kres[r].done /\ DOMAIN ws.files = {})
             => kres[r].key = kres[r].restoreKeys[1] \o NoLockfile

\* Two derivations that met the same two lockfiles, of different contents, in
\* opposite orders
C5_Witness ==
    /\ BothDerived
    /\ krun[1].version = krun[2].version
    /\ Len(krun[1].lockfiles) = 2
    /\ krun[1].lockfiles # krun[2].lockfiles
    /\ ws.files[krun[1].lockfiles[1]] # ws.files[krun[1].lockfiles[2]]

\* C6: two runs of the same workspace with different tool versions have different
\* keys, and the restore key of neither is a prefix of the other's key.
C6_CrossVersionSuppressed ==
    (BothDerived /\ KacheVersionOf(1) # KacheVersionOf(2))
       => /\ kres[1].key # kres[2].key
          /\ ~IsPrefix(kres[1].restoreKeys[1], kres[2].key)
          /\ ~IsPrefix(kres[2].restoreKeys[1], kres[1].key)

----
\* ------------------------------------------------------------ claims on the log

\* The records of the log, counted from its lines and not by the parser
IsRecord(line) == line.k = "json" /\ line.v.t = "object"

NumResult(results) ==
    Cardinality({i \in DOMAIN eventLog.lines :
                    /\ IsRecord(eventLog.lines[i])
                    /\ eventLog.lines[i].v.result \in results})

\* C3: for any log text parsing never aborts, and a log none of whose lines
\* decodes yields the absent result.
C3_ParsingNeverAborts ==
    /\ parsed.outcome # "throw"
    /\ (parsed.outcome # "none"
        /\ \A i \in DOMAIN eventLog.lines : ~Decoded(eventLog.lines[i]))
          => parsed = ReturnNull

\* C4: the aggregated stats add up: total = local + remote + misses, hits = local
\* + remote <= total, errors counts the error records alone and stays out of
\* total, records of an unknown result count nowhere, and there is one entry in
\* missedCrates per miss.
C4_StatsAddUp ==
    parsed.outcome = "stats"
       => /\ parsed.total = parsed.localHits + parsed.remoteHits + parsed.misses
          /\ parsed.hits = parsed.localHits + parsed.remoteHits
          /\ parsed.hits <= parsed.total
          /\ parsed.localHits = NumResult({"local_hit"})
          /\ parsed.remoteHits = NumResult({"remote_hit"})
          /\ parsed.misses = NumResult({"miss"})
          /\ parsed.errors = NumResult({"error"})
          /\ parsed.total = NumResult({"local_hit", "remote_hit", "miss"})
          /\ Len(parsed.missedCrates) = parsed.misses

\* Stats of a log that holds a miss, an error record and a record of an unknown
\* result
C4_Witness ==
    /\ parsed.outcome = "stats"
    /\ parsed.errors > 0
    /\ parsed.misses > 0
    /\ NumResult({"dedup"}) > 0

----
\* ------------------------------------------------------------ claims on the rendering

\* The misses of the log in encounter order, read off its lines
IsMissLine(line) == IsRecord(line) /\ line.v.result = "miss"

LogMisses == SelectSeq(eventLog.lines, IsMissLine)

\* Where the stable descending order puts the i-th of the misses ms: behind
\* every slower miss, and behind the earlier misses of the same elapsed time
RankOf(i, ms) ==
    1 + Cardinality({j \in DOMAIN ms :
                        \/ ElapsedOf(ms[j].v) > ElapsedOf(ms[i].v)
                        \/ ElapsedOf(ms[j].v) = ElapsedOf(ms[i].v) /\ j < i})

\* What the rendering shows
Cells(line) == Cardinality({i \in DOMAIN line : line[i] = Pipe}) - 1

IsMissRow(line) == Len(line) >= 2 /\ line[2].t = "code"

IsMoreRow(line) == Len(line) >= 2 /\ line[2].t = "value" /\ line[2].s = "more"

LinesWhere(Test(_)) == {i \in DOMAIN rendered : Test(rendered[i])}

IsDetailsOpen(line) == line = TextLine("<details>")

ShownRows == SelectSeq(rendered, IsMissRow)

\* C10: the rendering has the misses section exactly when there is a miss; the
\* section lists min(10, misses) rows, the slowest misses in non-increasing order
\* of elapsed time with ties in encounter order, then one "more" row announcing
\* misses - 10 exactly when there are more than 10 misses, and that row has as many
\* cells as the header of the table.
C10_MissesSection ==
    rendered # NotRendered
       => LET ms      == LogMisses
              n       == Len(ms)
              shown   == ShownRows
              details == LinesWhere(IsDetailsOpen)
              more    == LinesWhere(IsMoreRow)
          IN  /\ (details # {}) <=> (n > 0)
              /\ Cardinality(details) <= 1
              /\ Len(shown) = Min(TopN, n)
              /\ \A i \in DOMAIN ms :
                    LET rank == RankOf(i, ms)
                    IN  rank <= TopN
                           => /\ shown[rank][2] = Code(ms[i].v.crate_name)
                              /\ shown[rank][4] = formatMs(ElapsedOf(ms[i].v))
              /\ (more # {}) <=> (n > TopN)
              /\ Cardinality(more) <= 1
              /\ \A m \in more :
                    /\ rendered[m][2].v = n - TopN
                    /\ IsMissRow(rendered[m - 1])
                    /\ \A r \in LinesWhere(IsMissRow) : r < m
                    /\ \A d \in details : Cells(rendered[m]) = Cells(rendered[d + 3])

\* A rendering of more than 10 misses in which a slow miss was met after a quick
\* one and two misses tie
C10_Witness ==
    /\ rendered # NotRendered
    /\ Len(LogMisses) > TopN
    /\ \E i, j \in DOMAIN LogMisses :
          i < j /\ ElapsedOf(LogMisses[i].v) < ElapsedOf(LogMisses[j].v)
    /\ \E i, j \in DOMAIN LogMisses :
          i < j /\ ElapsedOf(LogMisses[i].v) = ElapsedOf(LogMisses[j].v)

----
\* ------------------------------------------------------------ claims on the sticky comment

\* The positions of the comments of the thread that carry the marker
Markers == {i \in DOMAIN comments : HasMarker(comments[i].body)}

Published == pub.outcome \in {"created", "updated"}

StickyOnFirstPage == \A i \in Markers : i <= PerPage

C1_OneStickyState ==
    StickyOnFirstPage
       => /\ Cardinality(Markers) <= 1
          /\ Published
                => /\ Cardinality(Markers) = 1
                   /\ \A i \in Markers : comments[i].body = MarkedBody(pub.body)

\* A publish that completes on a thread whose listed page holds a comment with the
\* marker updates the comment of that identifier and adds no comment
C1_UpdateStep ==
    (/\ pubCount' = pubCount + 1
     /\ pub'.outcome \in {"created", "updated"}
     /\ Markers # {}
     /\ StickyOnFirstPage)
       => /\ pub'.outcome = "updated"
          /\ \E i \in Markers : pub'.target = comments[i].id
          /\ Len(comments') = Len(comments)
          /\ \A i \in DOMAIN comments : comments'[i].id = comments[i].id

C7_NoThreadNoCall ==
    [][(pubCount' = pubCount + 1 /\ PrNumber(pub'.context) = 0)
          => /\ pub'.outcome = "skipped"
             /\ pub'.calls = <<>>
             /\ comments' = comments]_vars

\* A publish outside a review context was skipped on a thread that has comments
C7_Witness ==
    /\ pubCount > 0
    /\ PrNumber(pub.context) = 0
    /\ pub.outcome = "skipped"
    /\ comments # <<>>

----
\* ------------------------------------------------------------ claims on concurrent publishes

\* Both publishes went through their create or update call without an error
BothCompleted == \A r \in Racers : racers[r].pc = "done"

\* No publish listed the comments while another was between its list call and
\* its create or update call
NoOverlap == \A r \in Racers : ~racers[r].overlapped

----
\* ------------------------------------------------------------ claims on the run

\* The event log as it would be with the records of this run's build alone
ThisRunsLog == [exists |-> TRUE, lines |-> build.lines]

\* C12: once the pre step has ended without failing the job, on whichever path,
\* the event log holds the records this run's build appended and no others (it
\* was emptied after any restore and before the build), and in every run the
\* stats the post step parsed are those of this run's records alone.
C12_OnlyThisRunsRecords ==
    /\ (pre.done /\ ~jobFailed) => eventLog.lines = build.lines
    /\ (post.done /\ post.stats # NotParsed) => post.stats = parseEvents(ThisRunsLog)

\* C13: in a run that uses the GitHub Actions cache, the key saveCache passes to
\* cache.saveCache is the key restoreCache passed to cache.restoreCache.
C13_SavedUnderRestoredKey ==
    (post.done /\ kres[2].done) => (kres[1].done /\ kres[2].key = kres[1].key)

----
\* ------------------------------------------------------------ claims on the post step

Logged(level, about) == \E i \in DOMAIN post.log : post.log[i] = [level |-> level, about |-> about]

\* C2: the post step never marks the job as failed, and every failure it meets
\* (cache push or save, parsing, publish, summary write) is logged as a warning or
\* as an informational skip.
C2_PostNeverFails ==
    /\ ~jobFailed
    /\ post.done
          => \A f \in post.failures : Logged("warning", f) \/ Logged("info", f)

\* A post step that met a failure of each kind: one it only warned about, and one
\* that was thrown to the catch around the step
C2_Witness ==
    /\ post.done
    /\ post.threw # ""
    /\ Cardinality(post.failures) >= 2

\* C8: a publish that fails for lack of write permission is logged as an
\* informational skip and not as a warning, any other publish failure is logged
\* as a warning, and the step goes on to the job summary in both cases.
C8_PublishFailureClassified ==
    (post.done /\ post.publish = "threw")
       => /\ post.err.kind = "authorization"
                => Logged("info", "publish") /\ ~Logged("warning", "publish")
          /\ post.err.kind # "authorization"
                => Logged("warning", "publish") /\ ~Logged("info", "publish")
          /\ post.threw \in {"", "summary write"}
          /\ post.threw = "" => Len(summaryFile) = 1

\* A publish refused for lack of permission, after which the summary was written
C8_Witness ==
    /\ post.done
    /\ post.publish = "threw"
    /\ post.err.kind = "authorization"
    /\ Len(summaryFile) = 1

\* C9: whatever happened to the cache push or save and to the publish, the post
\* step writes exactly one job summary: the heading, then the full stats when
\* there is run data with total > 0, the degraded line otherwise. (Stated for the
\* runs in which the parser returned and the summary sink took the write.)
C9_OneSummary ==
    (post.done /\ post.stats.outcome # "throw" /\ ~post.summaryFault)
       => /\ Len(summaryFile) = 1
          /\ summaryFile[1][1] = HeadingLine
          /\ IF HasRunData(post.stats)
             THEN /\ summaryFile[1][2] = Headline(post.stats)
                  /\ \E i \in DOMAIN summaryFile[1] :
                        summaryFile[1][i] = Row(<<Text("Metric"), Text("Value")>>)
             ELSE /\ summaryFile[1][2][1] = Text("Backend")
                  /\ summaryFile[1][2][2] = Text(post.backend)
                  /\ Len(summaryFile[1]) = 3

====
